---- MODULE Spec2Model ----
(***************************************************************************)
(* A model of AWS_Resource_list.py: the command-line driver main(), the    *)
(* list-flattening transform reformat(), the table printer print_table(),  *)
(* the listener expansion expand_listeners_with_condensed_fields() and the *)
(* load-balancer collector collect_lb_resources().                         *)
(*                                                                         *)
(* Python values are tagged pairs: <<"str", s>>, <<"int", n>>,             *)
(* <<"list", <<v1, ..., vn>>>> and <<"none", 0>>.  A Python dict is the    *)
(* sequence of its <<key, value>> pairs in insertion order.                *)
(***************************************************************************)
EXTENDS Integers, Sequences, FiniteSets, TLC

VARIABLES
    \* main()
    argv,                \* the parsed command line: [v, l, r]
    pc,                  \* where main() is
    regions,             \* list_regions(): index -> region name
    selected_regions,    \* the regions of this run, in selection order
    region_i,            \* index in selected_regions of the region in progress
    stmt,                \* index in Body of the next statement of the loop body
    region_resources,    \* the record of the region in progress
    all_region_rawdata,  \* the records of the finished regions
    tables,              \* the tables the collectors returned: ec2_data, ebs_data, ...
    trace,               \* history: what ran, in order
    stdout,              \* the lines written to standard output
    log_lines,           \* the lines sys.stdout wrote to the log file
    exit_code,           \* the process's exit status, -1 while running
    log_file,            \* TRUE once the log file has been opened
    json_files,          \* the data of every JSON dump written
    \* reformat()
    rf_data, rf_key, rf_result,
    \* print_table()
    pt_data, pt_sortKey, pt_lines,
    \* expand_listeners_with_condensed_fields()
    ex_lbs, ex_rows,
    \* collect_lb_resources()
    aws, lb_result,
    \* collect_ec2_resources(), collect_ebs_resources()
    ec2_result, ebs_result

mainVars == <<argv, pc, regions, selected_regions, region_i, stmt, region_resources,
              all_region_rawdata, tables, trace, stdout, log_lines, exit_code, log_file,
              json_files>>
rfVars == <<rf_data, rf_key, rf_result>>
ptVars == <<pt_data, pt_sortKey, pt_lines>>
exVars == <<ex_lbs, ex_rows>>
lbVars == <<aws, lb_result>>
colVars == <<ec2_result, ebs_result>>
vars == <<mainVars, rfVars, ptVars, exVars, lbVars, colVars>>

\* The value of a variable that the specification at hand does not use.
Unused == <<>>

(***************************************************************************)
(* Python values and dicts                                                 *)
(***************************************************************************)
PyStr(s) == <<"str", s>>
PyInt(n) == <<"int", n>>
PyList(xs) == <<"list", xs>>
PyNone == <<"none", 0>>
PyBool(b) == <<"bool", b>>

IsList(v) == v[1] = "list"

\* key in d
HasKey(d, k) == \E i \in 1..Len(d) : d[i][1] = k

\* d[k], for a key of d
Item(d, k) == d[CHOOSE i \in 1..Len(d) : d[i][1] = k][2]

\* d.get(k, default)
Get(d, k, default) == IF HasKey(d, k) THEN Item(d, k) ELSE default

\* list(d.keys())
Keys(d) == [i \in 1..Len(d) |-> d[i][1]]

\* d[k] = v on a copy of d: a present key keeps its place, a new key goes last
SetItem(d, k, v) ==
    IF HasKey(d, k)
    THEN [i \in 1..Len(d) |-> IF d[i][1] = k THEN <<k, v>> ELSE d[i]]
    ELSE Append(d, <<k, v>>)

Digits == <<"0", "1", "2", "3", "4", "5", "6", "7", "8", "9">>

\* str(n) of a non-negative int
RECURSIVE IntStr(_)
IntStr(n) == IF n < 10 THEN Digits[n + 1] ELSE IntStr(n \div 10) \o Digits[(n % 10) + 1]

\* ", ".join(repr(x) for x in xs), for a list of strings
RECURSIVE ReprJoin(_)
ReprJoin(xs) ==
    IF xs = <<>> THEN ""
    ELSE IF Len(xs) = 1 THEN "'" \o xs[1][2] \o "'"
    ELSE "'" \o xs[1][2] \o "', " \o ReprJoin(Tail(xs))

\* str(v)
Str(v) ==
    CASE v[1] = "str" -> v[2]
      [] v[1] = "int" -> IntStr(v[2])
      [] v[1] = "list" -> "[" \o ReprJoin(v[2]) \o "]"
      [] v[1] = "bool" -> IF v[2] THEN "True" ELSE "False"
      [] OTHER -> "None"

\* The variables of main() in the specifications of the single functions.
MainIdle ==
    /\ argv = Unused /\ pc = "idle" /\ regions = Unused /\ selected_regions = Unused
    /\ region_i = 0 /\ stmt = 0 /\ region_resources = Unused
    /\ all_region_rawdata = Unused /\ tables = Unused /\ trace = Unused
    /\ stdout = Unused /\ log_lines = Unused
    /\ exit_code = -1 /\ log_file = FALSE /\ json_files = Unused

\* All sequences over S of length at most n.
SeqUpTo(S, n) == UNION {[1..k -> S] : k \in 0..n}

\* What a function call gives: its return value, or the exception it raised.
Returned(value) == [exc |-> "none", value |-> value]
Raised(exc) == [exc |-> exc, value |-> <<>>]

\* The concatenation of the sequences of a sequence.
RECURSIVE Flatten(_)
Flatten(ss) == IF ss = <<>> THEN <<>> ELSE Head(ss) \o Flatten(Tail(ss))

(***************************************************************************)
(* reformat(data, key)                                                     *)
(***************************************************************************)
\* The model's bounds on the records given to reformat and on a list's length.
MaxItems == 2
MaxVolumes == 2

\* list_items[0] raises IndexError on an empty list
RaisesIndexError(item, key) ==
    /\ HasKey(item, key)
    /\ IsList(Item(item, key))
    /\ Item(item, key)[2] = <<>>

\* {k: (value if k == key else item[k] if k == "Name" else "") for k in item}
ContinuationRow(item, key, value) ==
    [i \in 1..Len(item) |->
        <<item[i][1],
          IF item[i][1] = key THEN value
          ELSE IF item[i][1] = "Name" THEN item[i][2]
          ELSE PyStr("")>>]

\* The rows reformat appends for one item whose list, if any, is not empty.
ReformatItem(item, key) ==
    IF HasKey(item, key) /\ IsList(Item(item, key))
    THEN LET list_items == Item(item, key)[2] IN
         IF Len(list_items) = 1
         THEN <<SetItem(item, key, list_items[1])>>
         ELSE <<SetItem(item, key, list_items[1])>>
                 \o [j \in 1..(Len(list_items) - 1) |->
                        ContinuationRow(item, key, list_items[j + 1])]
    ELSE <<item>>

reformat(data, key) ==
    IF \E i \in 1..Len(data) : RaisesIndexError(data[i], key)
    THEN Raised("IndexError")
    ELSE Returned(Flatten([i \in 1..Len(data) |-> ReformatItem(data[i], key)]))

\* The records of the model: an instance with its volumes under "EBS", which
\* is a list of zero or more volume ids, a plain string, or absent.
VolumeIds == {PyStr("vol-1"), PyStr("vol-2")}

EbsChoices ==
    {<<>>, <<<<"EBS", PyStr("vol-0")>>>>}
       \cup {<<<<"EBS", PyList(vs)>>>> : vs \in SeqUpTo(VolumeIds, MaxVolumes)}

ReformatItems ==
    {<<<<"Name", PyStr(n)>>, <<"Type", PyStr("t2.micro")>>>> \o e
        \o <<<<"VPC", PyStr("vpc-1")>>>> : n \in {"web", "db"}, e \in EbsChoices}

InitReformat ==
    /\ MainIdle
    /\ rf_data \in SeqUpTo(ReformatItems, MaxItems)
    /\ rf_key \in {"EBS", "Type"}
    /\ rf_result = Unused
    /\ pt_data = Unused /\ pt_sortKey = Unused /\ pt_lines = Unused
    /\ ex_lbs = Unused /\ ex_rows = Unused
    /\ aws = Unused /\ lb_result = Unused
    /\ ec2_result = Unused /\ ebs_result = Unused

CallReformat ==
    /\ rf_result = Unused
    /\ rf_result' = reformat(rf_data, rf_key)
    /\ UNCHANGED <<rf_data, rf_key, mainVars, ptVars, exVars, lbVars, colVars>>

NextReformat == CallReformat

SpecReformat == InitReformat /\ [][NextReformat]_vars

\* The number of rows the claim gives a record: the length of its list, or one
\* row for a record whose key field is absent or not a list.
RowsWanted(item, key) ==
    IF HasKey(item, key) /\ IsList(Item(item, key)) THEN Len(Item(item, key)[2]) ELSE 1

RECURSIVE RowsBefore(_, _, _)
RowsBefore(data, key, i) ==
    IF i = 1 THEN 0 ELSE RowsBefore(data, key, i - 1) + RowsWanted(data[i - 1], key)

\* The claim on record i of data, whose rows start after `base` rows of `rows`.
RecordFlattened(item, key, rows, base) ==
    IF HasKey(item, key) /\ IsList(Item(item, key))
    THEN \A j \in 1..Len(Item(item, key)[2]) :
            LET row == rows[base + j] IN
            /\ Keys(row) = Keys(item)
            /\ Item(row, key) = Item(item, key)[2][j]
            /\ \A k \in {item[x][1] : x \in 1..Len(item)} \ {key} :
                  Item(row, k) = IF j = 1 \/ k = "Name" THEN Item(item, k) ELSE PyStr("")
    ELSE rows[base + 1] = item

\* C1: reformat returns, for every record whose key field is a list of n >= 0
\* elements, exactly n rows in list order, the first keeping the other fields,
\* the later ones repeating "Name" and blanking the rest; other records are
\* emitted unchanged, and the order of the records is kept.
C1_OneRowPerListElement ==
    rf_result # Unused =>
       /\ rf_result.exc = "none"
       /\ Len(rf_result.value) = RowsBefore(rf_data, rf_key, Len(rf_data) + 1)
       /\ \A i \in 1..Len(rf_data) :
             RecordFlattened(rf_data[i], rf_key, rf_result.value,
                             RowsBefore(rf_data, rf_key, i))

\* The same, for data whose lists all have at least one element.
ReformatOnNonEmptyLists ==
    (rf_result # Unused /\ \A i \in 1..Len(rf_data) : ~ RaisesIndexError(rf_data[i], rf_key))
       => C1_OneRowPerListElement

(***************************************************************************)
(* print_table(data, sortKey)                                              *)
(***************************************************************************)
\* The model's bound on the number of rows of a table.
MaxRows == 3

\* The characters of the model's sort keys, in code point order.
Alphabet == <<"-", "0", "1", "2", "3", "4", "5", "6", "7", "8", "9",
              "a", "b", "c", "d", "e", "f", "g", "h", "i", "j", "k", "l", "m",
              "n", "o", "p", "q", "r", "s", "t", "u", "v", "w", "x", "y", "z">>

\* ord(c)
Ord(c) == CHOOSE n \in 1..Len(Alphabet) : Alphabet[n] = c

\* s < t on Python strings: by the first character that differs, a proper
\* prefix being the smaller
RECURSIVE StrLess(_, _)
StrLess(s, t) ==
    IF t = "" THEN FALSE
    ELSE IF s = "" THEN TRUE
    ELSE IF SubSeq(s, 1, 1) # SubSeq(t, 1, 1)
         THEN Ord(SubSeq(s, 1, 1)) < Ord(SubSeq(t, 1, 1))
         ELSE StrLess(SubSeq(s, 2, Len(s)), SubSeq(t, 2, Len(t)))

\* sorted(data, key=lambda x: x[sortKey]): stable, a row goes after the rows
\* already placed whose key is not greater than its own
RECURSIVE sorted(_, _)
sorted(data, sortKey) ==
    IF data = <<>> THEN <<>>
    ELSE LET front == sorted(SubSeq(data, 1, Len(data) - 1), sortKey)
             row == data[Len(data)]
             n == Cardinality({i \in 1..Len(front) :
                     ~ StrLess(Item(row, sortKey)[2], Item(front[i], sortKey)[2])})
         IN SubSeq(front, 1, n) \o <<row>> \o SubSeq(front, n + 1, Len(front))

Max(a, b) == IF a >= b THEN a ELSE b

RECURSIVE Repeat(_, _)
Repeat(c, n) == IF n <= 0 THEN "" ELSE c \o Repeat(c, n - 1)

\* sep.join(parts)
RECURSIVE Join(_, _)
Join(sep, parts) ==
    IF parts = <<>> THEN ""
    ELSE IF Len(parts) = 1 THEN parts[1]
    ELSE parts[1] \o sep \o Join(sep, Tail(parts))

\* f"{item:{width}}" of a string: padded with spaces on the right, never cut
Format(item, width) == item \o Repeat(" ", width - Len(item))

\* Faulty widths: started at 0 and not at the headers' lengths.
RECURSIVE ColWidthNoHeader(_, _, _)
ColWidthNoHeader(data, header, n) ==
    IF n = 0 THEN 0
    ELSE Max(ColWidthNoHeader(data, header, n - 1), Len(Str(Get(data[n], header, PyStr("")))))

\* col_widths[header] after the first n rows
RECURSIVE ColWidth(_, _, _)
ColWidth(data, header, n) ==
    IF n = 0 THEN Len(header)
    ELSE Max(ColWidth(data, header, n - 1), Len(Str(Get(data[n], header, PyStr("")))))

\* A faulty prev_vpc: never updated after the first row.
PrevVpcStale(data, headers, i) ==
    IF i = 1 THEN PyNone ELSE Get(data[1], headers[1], PyStr(""))

\* prev_vpc when row i is printed: None, then the first-column value of row i - 1
PrevVpc(data, headers, i) ==
    IF i = 1 THEN PyNone ELSE Get(data[i - 1], headers[1], PyStr(""))

\* current_vpc == prev_vpc
Merged(data, headers, i) ==
    Get(data[i], headers[1], PyStr("")) = PrevVpc(data, headers, i)

\* row_to_print
RowToPrint(data, headers, i) ==
    [j \in 1..Len(headers) |->
        IF j = 1 /\ Merged(data, headers, i) THEN ""
        ELSE Str(Get(data[i], headers[j], PyStr("")))]

\* "| " + " | ".join(f"{item:{col_widths[header]}}" ...) + " |"
TableLine(items, widths) ==
    "| " \o Join(" | ", [j \in 1..Len(items) |-> Format(items[j], widths[j])]) \o " |"

\* The lines print_table prints, in order.
print_table(data0, sortKey) ==
    IF data0 = <<>> THEN <<"No data available to display.">>
    ELSE LET data == IF sortKey # "" THEN sorted(data0, sortKey) ELSE data0
             headers == Keys(data[1])
             widths == [j \in 1..Len(headers) |-> ColWidth(data, headers[j], Len(data))]
             separator ==
                 "+" \o Join("+", [j \in 1..Len(headers) |-> Repeat("-", widths[j] + 2)]) \o "+"
             header_row == TableLine(headers, widths)
         IN <<separator, header_row>>
               \o Flatten([i \in 1..Len(data) |->
                     IF Merged(data, headers, i)
                     THEN <<TableLine(RowToPrint(data, headers, i), widths)>>
                     ELSE <<separator, TableLine(RowToPrint(data, headers, i), widths)>>])
               \o <<separator>>

\* The rows of the model: a first column of strings, a second column of an
\* int or a list of strings, or missing.
FirstColumn == {PyStr("vpc-b"), PyStr("vpc-a"), PyStr("")}

SecondColumn ==
    {<<>>, <<<<"SubnetId", PyInt(100)>>>>,
     <<<<"SubnetId", PyList(<<PyStr("sg-1"), PyStr("sg-2")>>)>>>>}

TableRows == {<<<<"vpc", f>>>> \o x : f \in FirstColumn, x \in SecondColumn}

\* sortKey: "" stands for None; the program sorts by the first column only.
SortKeys == {"", "vpc"}

InitTable ==
    /\ MainIdle
    /\ pt_data \in SeqUpTo(TableRows, MaxRows)
    /\ pt_sortKey \in SortKeys
    /\ pt_lines = Unused
    /\ rf_data = Unused /\ rf_key = Unused /\ rf_result = Unused
    /\ ex_lbs = Unused /\ ex_rows = Unused
    /\ aws = Unused /\ lb_result = Unused
    /\ ec2_result = Unused /\ ebs_result = Unused

CallPrintTable ==
    /\ pt_lines = Unused
    /\ pt_lines' = print_table(pt_data, pt_sortKey)
    /\ UNCHANGED <<pt_data, pt_sortKey, mainVars, rfVars, exVars, lbVars, colVars>>

NextTable == CallPrintTable

SpecTable == InitTable /\ [][NextTable]_vars

(***************************************************************************)
(* Properties of print_table, read off the lines it printed                *)
(***************************************************************************)
\* A table has been printed for data that is not empty.
TableShown == pt_lines # Unused /\ pt_data # <<>>

\* The rows in the order they are scanned.
ShownRows == IF pt_sortKey # "" THEN sorted(pt_data, pt_sortKey) ELSE pt_data

ShownHeaders == Keys(ShownRows[1])

\* The text of a row's cell before padding.
CellText(i, j) == Str(Get(ShownRows[i], ShownHeaders[j], PyStr("")))

\* The positions of the column borders in the first line printed.
Borders == {p \in 1..Len(pt_lines[1]) : SubSeq(pt_lines[1], p, p) = "+"}

Border(j) == CHOOSE p \in Borders : Cardinality({q \in Borders : q < p}) = j - 1

\* The width column j is rendered with, and what a line shows in it.
RenderedWidth(j) == Border(j + 1) - Border(j) - 3

Cell(line, j) == SubSeq(line, Border(j) + 2, Border(j + 1) - 2)

SetMax(S) == CHOOSE m \in S : \A x \in S : x <= m

IsSeparator(line) == line = pt_lines[1]

\* Row i is printed in full: it is the first row, or its first-column value
\* differs from that of the row before it.
PrintedInFull(i) ==
    \/ i = 1
    \/ Get(ShownRows[i], ShownHeaders[1], PyStr(""))
          # Get(ShownRows[i - 1], ShownHeaders[1], PyStr(""))

\* Where row i's line is, if a separator precedes exactly the rows printed in full.
LineOfRow(i) == 2 + i + Cardinality({k \in 1..i : PrintedInFull(k)})

\* C2: the rendered width of every column is the maximum of the header's
\* length and the lengths of str(value) over all rows; no header and no cell is
\* cut; the separators, the header line and the data lines have one length.
C2_ColumnWidthsAreMaxima ==
    TableShown =>
       /\ Cardinality(Borders) = Len(ShownHeaders) + 1
       /\ \A j \in 1..Len(ShownHeaders) :
             /\ RenderedWidth(j) =
                   SetMax({Len(ShownHeaders[j])}
                             \cup {Len(CellText(i, j)) : i \in 1..Len(ShownRows)})
             /\ SubSeq(Cell(pt_lines[2], j), 1, Len(ShownHeaders[j])) = ShownHeaders[j]
             /\ \A i \in 1..Len(ShownRows) :
                   \E k \in 3..Len(pt_lines) :
                      /\ ~ IsSeparator(pt_lines[k])
                      /\ Cardinality({m \in 3..k : ~ IsSeparator(pt_lines[m])}) = i
                      /\ \/ SubSeq(Cell(pt_lines[k], j), 1, Len(CellText(i, j)))
                               = CellText(i, j)
                         \/ j = 1 /\ Cell(pt_lines[k], j) = Repeat(" ", RenderedWidth(j))
       /\ \A k \in 1..Len(pt_lines) : Len(pt_lines[k]) = Len(pt_lines[1])

\* One column is as wide as its header, which is longer than every value in
\* it, another as wide as a value longer than its header.
C2_Witness ==
    /\ TableShown
    /\ Len(ShownRows) >= 2
    /\ \E j \in 1..Len(ShownHeaders) :
          /\ RenderedWidth(j) = Len(ShownHeaders[j])
          /\ \A i \in 1..Len(ShownRows) : Len(CellText(i, j)) < Len(ShownHeaders[j])
    /\ \E j \in 1..Len(ShownHeaders) : RenderedWidth(j) > Len(ShownHeaders[j])

\* C3: scanning the (optionally sorted) rows in order, the first-column cell is
\* blank exactly for the rows whose first-column value equals that of the row
\* before; the first row is printed in full; a separator comes immediately
\* before every row printed in full and before no merged row; the other
\* columns always show the row's own values.  The table is the top separator,
\* the header, these lines, and a closing separator.
C3_RepeatedFirstColumnMerged ==
    TableShown =>
       /\ Len(pt_lines) = LineOfRow(Len(ShownRows)) + 1
       /\ ~ IsSeparator(pt_lines[2])
       /\ IsSeparator(pt_lines[Len(pt_lines)])
       /\ \A i \in 1..Len(ShownRows) :
             LET line == pt_lines[LineOfRow(i)] IN
             /\ ~ IsSeparator(line)
             /\ IsSeparator(pt_lines[LineOfRow(i) - 1]) <=> PrintedInFull(i)
             /\ Cell(line, 1) = Format(IF PrintedInFull(i) THEN CellText(i, 1) ELSE "",
                                       RenderedWidth(1))
             /\ \A j \in 2..Len(ShownHeaders) :
                   Cell(line, j) = Format(CellText(i, j), RenderedWidth(j))

\* Sorting changed the order of the rows, a row was merged into the one before
\* it and a later row was printed in full.
C3_Witness ==
    /\ TableShown
    /\ pt_sortKey # ""
    /\ ShownRows # pt_data
    /\ \E i \in 2..Len(ShownRows) :
          /\ ~ PrintedInFull(i)
          /\ Cell(pt_lines[LineOfRow(i)], 1) = Repeat(" ", RenderedWidth(1))
          /\ CellText(i, 1) # ""
    /\ \E i \in 2..Len(ShownRows) : PrintedInFull(i)

(***************************************************************************)
(* expand_listeners_with_condensed_fields(lbs)                             *)
(***************************************************************************)
\* The model's bounds on the load balancers given and on their listeners.
MaxLbRows == 2
MaxListeners == 2

\* A dict as a value, for the listeners in a load balancer's "Listener" list.
PyDict(pairs) == <<"dict", pairs>>

\* A row of lbs as collect_lb_resources builds it.
LbRow(name, type, scheme, vpc, security_groups, lsn_info) ==
    << <<"Name", PyStr(name)>>, <<"Type", PyStr(type)>>, <<"Scheme", PyStr(scheme)>>,
       <<"Vpc", PyStr(vpc)>>, <<"SecurityGroups", PyList(security_groups)>>,
       <<"Listener", PyList(lsn_info)>> >>

\* An entry of lsn_info.
LsnInfo(port, protocol, action) ==
    PyDict(<< <<"Port", PyInt(port)>>, <<"Protocol", PyStr(protocol)>>,
              <<"Action", PyStr(action)>> >>)

\* f"Port: {listener['Port']}, Protocol: {listener['Protocol']}, Action: {listener['Action']}"
ListenerText(listener) ==
    "Port: " \o Str(Item(listener[2], "Port"))
       \o ", Protocol: " \o Str(Item(listener[2], "Protocol"))
       \o ", Action: " \o Str(Item(listener[2], "Action"))

\* row_data for the listener at `index` (from 0) of lb
ExpandedRow(lb, index, listener) ==
    IF index = 0
    THEN << <<"Name", Item(lb, "Name")>>, <<"Type", Item(lb, "Type")>>,
            <<"Scheme", Item(lb, "Scheme")>>, <<"Vpc", Item(lb, "Vpc")>>,
            <<"SecurityGroups", Item(lb, "SecurityGroups")>>,
            <<"Listener", PyStr(ListenerText(listener))>> >>
    ELSE << <<"Name", Item(lb, "Name")>>, <<"Type", PyStr("")>>,
            <<"Scheme", PyStr("")>>, <<"Vpc", PyStr("")>>,
            <<"SecurityGroups", PyStr("")>>,
            <<"Listener", PyStr(ListenerText(listener))>> >>

expand_listeners_with_condensed_fields(lbs) ==
    Flatten([i \in 1..Len(lbs) |->
               [n \in 1..Len(Item(lbs[i], "Listener")[2]) |->
                   ExpandedRow(lbs[i], n - 1, Item(lbs[i], "Listener")[2][n])]])

ListenerChoices ==
    {LsnInfo(80, "HTTP", "redirect"), LsnInfo(443, "HTTPS", "forward (tg-web)")}

ExpandLbs ==
    {LbRow(n, "application", "internet-facing", "vpc-1", <<PyStr("sg-1")>>, ls) :
        n \in {"lb-a", "lb-b"}, ls \in SeqUpTo(ListenerChoices, MaxListeners)}

InitExpand ==
    /\ MainIdle
    /\ ex_lbs \in SeqUpTo(ExpandLbs, MaxLbRows)
    /\ ex_rows = Unused
    /\ rf_data = Unused /\ rf_key = Unused /\ rf_result = Unused
    /\ pt_data = Unused /\ pt_sortKey = Unused /\ pt_lines = Unused
    /\ aws = Unused /\ lb_result = Unused
    /\ ec2_result = Unused /\ ebs_result = Unused

CallExpand ==
    /\ ex_rows = Unused
    /\ ex_rows' = Returned(expand_listeners_with_condensed_fields(ex_lbs))
    /\ UNCHANGED <<ex_lbs, mainVars, rfVars, ptVars, lbVars, colVars>>

NextExpand == CallExpand

SpecExpand == InitExpand /\ [][NextExpand]_vars

ListenersOf(lb) == Item(lb, "Listener")[2]

RECURSIVE ListenersBefore(_, _)
ListenersBefore(lbs, i) ==
    IF i = 1 THEN 0 ELSE ListenersBefore(lbs, i - 1) + Len(ListenersOf(lbs[i - 1]))

\* A load balancer with n listeners yields n rows, in listener order; the first
\* carries Name, Type, Scheme, Vpc and SecurityGroups, the later ones only Name
\* and Listener.
ExpandedInListenerOrder ==
    ex_rows # Unused =>
       /\ Len(ex_rows.value) = ListenersBefore(ex_lbs, Len(ex_lbs) + 1)
       /\ \A i \in 1..Len(ex_lbs) : \A n \in 1..Len(ListenersOf(ex_lbs[i])) :
             LET row == ex_rows.value[ListenersBefore(ex_lbs, i) + n] IN
             /\ Keys(row) = <<"Name", "Type", "Scheme", "Vpc", "SecurityGroups", "Listener">>
             /\ Item(row, "Name") = Item(ex_lbs[i], "Name")
             /\ Item(row, "Listener") = PyStr(ListenerText(ListenersOf(ex_lbs[i])[n]))
             /\ \A k \in {"Type", "Scheme", "Vpc", "SecurityGroups"} :
                   Item(row, k) = IF n = 1 THEN Item(ex_lbs[i], k) ELSE PyStr("")

\* C9: the input is preserved while reshaped: every load balancer of the
\* input, also one with zero listeners, appears in at least one output row,
\* and each load balancer's listeners give its rows as above.
C9_EveryLoadBalancerShown ==
    ex_rows # Unused =>
       /\ \A i \in 1..Len(ex_lbs) :
             \E k \in 1..Len(ex_rows.value) :
                Item(ex_rows.value[k], "Name") = Item(ex_lbs[i], "Name")
       /\ ExpandedInListenerOrder

(***************************************************************************)
(* collect_lb_resources(region)                                            *)
(*                                                                         *)
(* aws is what the region holds: a sequence of load balancers, each with   *)
(* an optional redirect listener and its target groups; a target group is  *)
(* the sequence of its registered targets, and every target group has a    *)
(* forward listener on its load balancer.                                  *)
(***************************************************************************)
\* The model's bounds on what a region holds: load balancers, target groups
\* (in all) and registered targets (in all).
MaxLbs == 2
MaxTgs == 2
MaxTargets == 2

\* The "Target" of a target health description: with or without an "Id".
TargetChoices ==
    {<<>>, <<<<"Id", "i-gone">>>>, <<<<"Id", "i-untagged">>>>, <<<<"Id", "i-web">>>>}

LbName(i) == "lb-" \o IntStr(i)
LbArn(i) == "arn:loadbalancer/lb-" \o IntStr(i)
TgName(i, j) == "tg-" \o IntStr(i) \o "-" \o IntStr(j)
TgArn(i, j) == "arn:targetgroup/tg-" \o IntStr(i) \o "-" \o IntStr(j)

\* elbv2.describe_load_balancers()["LoadBalancers"]
DescribeLoadBalancers(env) ==
    [i \in 1..Len(env) |->
        [LoadBalancerName |-> LbName(i), LoadBalancerArn |-> LbArn(i),
         Type |-> "application", Scheme |-> "internet-facing", VpcId |-> "vpc-1",
         SecurityGroups |-> <<"sg-1">>]]

\* elbv2.describe_target_groups(LoadBalancerArn=...)["TargetGroups"]
DescribeTargetGroupsOfLb(env, i) ==
    [j \in 1..Len(env[i].tgs) |->
        [TargetGroupName |-> TgName(i, j), TargetGroupArn |-> TgArn(i, j),
         Port |-> 8080, Protocol |-> "HTTP", LoadBalancerArns |-> <<LbArn(i)>>]]

\* elbv2.describe_target_groups()["TargetGroups"]
DescribeTargetGroups(env) ==
    Flatten([i \in 1..Len(env) |-> DescribeTargetGroupsOfLb(env, i)])

\* elbv2.describe_target_groups(TargetGroupArns=[tg_arn])["TargetGroups"]
DescribeTargetGroupsByArn(env, tg_arn) ==
    SelectSeq(DescribeTargetGroups(env), LAMBDA tg : tg.TargetGroupArn = tg_arn)

\* elbv2.describe_listeners(LoadBalancerArn=...)["Listeners"]
DescribeListeners(env, i) ==
    (IF env[i].redirect
     THEN <<[ListenerArn |-> "arn:listener/lb-" \o IntStr(i) \o "/80",
             LoadBalancerArn |-> LbArn(i), Port |-> 80, Protocol |-> "HTTP",
             DefaultActions |-> <<[Type |-> "redirect"]>>]>>
     ELSE <<>>)
    \o [j \in 1..Len(env[i].tgs) |->
          [ListenerArn |-> "arn:listener/lb-" \o IntStr(i) \o "/" \o IntStr(8000 + j),
           LoadBalancerArn |-> LbArn(i), Port |-> 8000 + j, Protocol |-> "HTTPS",
           DefaultActions |-> <<[Type |-> "forward", TargetGroupArn |-> TgArn(i, j)]>>]]

\* elbv2.describe_target_health(TargetGroupArn=...)["TargetHealthDescriptions"]
DescribeTargetHealth(env, i, j) ==
    [k \in 1..Len(env[i].tgs[j]) |->
        [Target |-> env[i].tgs[j][k], TargetHealth |-> [State |-> "healthy"]]]

\* ec2.describe_instances(InstanceIds=[instance_id])["Reservations"]: an
\* instance that no longer exists raises, one has no Name tag, one is "web".
DescribeInstances(instance_id) ==
    CASE instance_id = "i-web" ->
            Returned(<<[Instances |-> <<[InstanceId |-> "i-web",
                          Tags |-> <<[Key |-> "Env", Value |-> "prod"],
                                     [Key |-> "Name", Value |-> "web"]>>]>>]>>)
      [] instance_id = "i-untagged" ->
            Returned(<<[Instances |-> <<[InstanceId |-> "i-untagged",
                          Tags |-> <<[Key |-> "Env", Value |-> "prod"]>>]>>]>>)
      [] OTHER -> Raised("ClientError")

\* next((tag["Value"] for reservation ... for instance ... for tag ...
\*       if tag["Key"] == "Name"), "N/A")
FirstNameTag(instance_details) ==
    LET tags == Flatten([r \in 1..Len(instance_details) |->
                   Flatten([n \in 1..Len(instance_details[r].Instances) |->
                              instance_details[r].Instances[n].Tags])])
        named == SelectSeq(tags, LAMBDA tag : tag.Key = "Name")
    IN IF named = <<>> THEN "N/A" ELSE named[1].Value

\* A faulty lookup: no try/except around describe_instances.
ResolveNameUncaught(target) ==
    LET instance_id == Get(target.Target, "Id", "N/A") IN
    IF instance_id # "N/A"
    THEN LET r == DescribeInstances(instance_id) IN
         IF r.exc # "none" THEN r ELSE Returned(FirstNameTag(r.value))
    ELSE Returned("N/A")

\* The name appended to targets for one target health description.
ResolveName(target) ==
    LET instance_id == Get(target.Target, "Id", "N/A") IN
    IF instance_id # "N/A"
    THEN LET r == DescribeInstances(instance_id) IN
         IF r.exc # "none" THEN Returned("N/A") ELSE Returned(FirstNameTag(r.value))
    ELSE Returned("N/A")

\* The entry lsn_info gets for a listener.
LsnInfoOf(env, lns) ==
    LET action_type == lns.DefaultActions[1].Type
        action ==
            IF action_type = "forward"
            THEN action_type \o " ("
                    \o DescribeTargetGroupsByArn(env, lns.DefaultActions[1].TargetGroupArn)[1]
                          .TargetGroupName
                    \o ")"
            ELSE action_type
    IN LsnInfo(lns.Port, lns.Protocol, action)

\* The names resolved for the targets of target group j of load balancer i.
TargetNames(env, i, j) ==
    LET ths == DescribeTargetHealth(env, i, j) IN [k \in 1..Len(ths) |-> ResolveName(ths[k])]

\* The entry target_group_info gets for target group j of load balancer i.
TargetGroupInfo(env, i, j) ==
    LET tg == DescribeTargetGroupsOfLb(env, i)[j]
        names == TargetNames(env, i, j)
    IN << <<"Target Group", PyStr(tg.TargetGroupName)>>, <<"Port", PyInt(tg.Port)>>,
          <<"Protocol", PyStr(tg.Protocol)>>,
          <<"Instances", PyList([k \in 1..Len(names) |-> PyStr(names[k].value)])>> >>

\* The entry tg_health gets for target group j of load balancer i.
TgHealth(env, i, j) ==
    [TargetGroupName |-> TgName(i, j), Target_health |-> DescribeTargetHealth(env, i, j)]

\* lb_all after the first n load balancers: "lb_listener" is assigned anew
\* for each of them.
RECURSIVE LbAllAfter(_, _)
LbAllAfter(env, n) ==
    IF n = 0
    THEN << <<"lb_raw", DescribeLoadBalancers(env)>>,
            <<"lb_target_groups", DescribeTargetGroups(env)>> >>
    ELSE SetItem(LbAllAfter(env, n - 1), "lb_listener", DescribeListeners(env, n))

\* The exceptions that escape the name lookups, in program order.
EscapedExceptions(env) ==
    SelectSeq(Flatten([i \in 1..Len(env) |->
                 Flatten([j \in 1..Len(env[i].tgs) |-> TargetNames(env, i, j)])]),
              LAMBDA r : r.exc # "none")

collect_lb_resources(env) ==
    IF EscapedExceptions(env) # <<>>
    THEN Raised(EscapedExceptions(env)[1].exc)
    ELSE Returned(
           [lbs |->
               [i \in 1..Len(env) |->
                   LET lb == DescribeLoadBalancers(env)[i]
                       listeners == DescribeListeners(env, i)
                   IN LbRow(lb.LoadBalancerName, lb.Type, lb.Scheme, lb.VpcId,
                            [g \in 1..Len(lb.SecurityGroups) |-> PyStr(lb.SecurityGroups[g])],
                            [n \in 1..Len(listeners) |-> LsnInfoOf(env, listeners[n])])],
            target_group_info |->
               Flatten([i \in 1..Len(env) |->
                          [j \in 1..Len(env[i].tgs) |-> TargetGroupInfo(env, i, j)]]),
            lb_all |->
               SetItem(LbAllAfter(env, Len(env)), "lb_target_health",
                       Flatten([i \in 1..Len(env) |->
                                  [j \in 1..Len(env[i].tgs) |-> TgHealth(env, i, j)]]))])

RECURSIVE SumLen(_)
SumLen(ss) == IF ss = <<>> THEN 0 ELSE Len(Head(ss)) + SumLen(Tail(ss))

\* The target groups and the registered targets of the region, in all.
TotalTgs(env) == SumLen([i \in 1..Len(env) |-> env[i].tgs])
TotalTargets(env) == SumLen([i \in 1..Len(env) |-> Flatten(env[i].tgs)])

InitLb ==
    /\ MainIdle
    /\ aws = <<>>
    /\ lb_result = Unused
    /\ ec2_result = Unused /\ ebs_result = Unused
    /\ rf_data = Unused /\ rf_key = Unused /\ rf_result = Unused
    /\ pt_data = Unused /\ pt_sortKey = Unused /\ pt_lines = Unused
    /\ ex_lbs = Unused /\ ex_rows = Unused

\* The region gets one more load balancer.
CreateLoadBalancer ==
    /\ lb_result = Unused
    /\ Len(aws) < MaxLbs
    /\ \E redirect \in BOOLEAN : aws' = Append(aws, [redirect |-> redirect, tgs |-> <<>>])
    /\ UNCHANGED <<lb_result, mainVars, rfVars, ptVars, exVars, colVars>>

\* The newest load balancer gets one more target group.
CreateTargetGroup ==
    /\ lb_result = Unused
    /\ aws # <<>>
    /\ TotalTgs(aws) < MaxTgs
    /\ aws' = [aws EXCEPT ![Len(aws)].tgs = Append(@, <<>>)]
    /\ UNCHANGED <<lb_result, mainVars, rfVars, ptVars, exVars, colVars>>

\* The newest target group gets one more target.
RegisterTarget ==
    /\ lb_result = Unused
    /\ aws # <<>>
    /\ aws[Len(aws)].tgs # <<>>
    /\ TotalTargets(aws) < MaxTargets
    /\ \E t \in TargetChoices :
          aws' = [aws EXCEPT ![Len(aws)].tgs[Len(aws[Len(aws)].tgs)] = Append(@, t)]
    /\ UNCHANGED <<lb_result, mainVars, rfVars, ptVars, exVars, colVars>>

CallCollectLb ==
    /\ lb_result = Unused
    /\ lb_result' = collect_lb_resources(aws)
    /\ UNCHANGED <<aws, mainVars, rfVars, ptVars, exVars, colVars>>

NextLb ==
    \/ CreateLoadBalancer
    \/ CreateTargetGroup
    \/ RegisterTarget
    \/ CallCollectLb

SpecLb == InitLb /\ [][NextLb]_vars

(***************************************************************************)
(* Properties of collect_lb_resources                                      *)
(***************************************************************************)
\* The lookup of a target's Name tag fails: the target has no Id,
\* describe_instances raises, or no instance returned has a Name tag.
LookupFails(target) ==
    \/ ~ HasKey(target, "Id")
    \/ DescribeInstances(Item(target, "Id")).exc # "none"
    \/ \A r \in 1..Len(DescribeInstances(Item(target, "Id")).value) :
          \A n \in 1..Len(DescribeInstances(Item(target, "Id")).value[r].Instances) :
             \A g \in 1..Len(DescribeInstances(Item(target, "Id")).value[r].Instances[n].Tags) :
                DescribeInstances(Item(target, "Id")).value[r].Instances[n].Tags[g].Key # "Name"

RECURSIVE TgsBefore(_, _)
TgsBefore(env, i) == IF i = 1 THEN 0 ELSE TgsBefore(env, i - 1) + Len(env[i - 1].tgs)

\* C6: a failed Name lookup gives the target the name "N/A"; exactly one name
\* is appended per target, in target order; the failure never escapes, and the
\* collection goes on: every target group of every load balancer has its entry
\* and every load balancer its row.
C6_FailedLookupFallsBack ==
    lb_result # Unused =>
       /\ lb_result.exc = "none"
       /\ Len(lb_result.value.lbs) = Len(aws)
       /\ Len(lb_result.value.target_group_info) = TotalTgs(aws)
       /\ \A i \in 1..Len(aws) : \A j \in 1..Len(aws[i].tgs) :
             LET info == lb_result.value.target_group_info[TgsBefore(aws, i) + j]
                 names == Item(info, "Instances")[2]
             IN /\ Item(info, "Target Group") = PyStr(TgName(i, j))
                /\ Len(names) = Len(aws[i].tgs[j])
                /\ \A k \in 1..Len(names) :
                      IF LookupFails(aws[i].tgs[j][k])
                      THEN names[k] = PyStr("N/A")
                      ELSE names[k] = PyStr("web")

\* A lookup that raised is followed by a target that resolves, in a target
\* group that is followed by another load balancer with its own target group.
C6_Witness ==
    /\ lb_result # Unused
    /\ lb_result.exc = "none"
    /\ Len(aws) = 2
    /\ Len(aws[1].tgs) = 1 /\ Len(aws[2].tgs) = 1
    /\ aws[1].tgs[1] = <<<<<<"Id", "i-gone">>>>, <<<<"Id", "i-web">>>>>>
    /\ Item(lb_result.value.target_group_info[1], "Instances")
          = PyList(<<PyStr("N/A"), PyStr("web")>>)
    /\ Len(lb_result.value.target_group_info) = 2

\* C10: the raw record returned holds the listener response of every load
\* balancer of the region.
C10_ListenersOfEveryLoadBalancer ==
    (lb_result # Unused /\ lb_result.exc = "none") =>
       \A i \in 1..Len(aws) : \A n \in 1..Len(DescribeListeners(aws, i)) :
          /\ HasKey(lb_result.value.lb_all, "lb_listener")
          /\ \E m \in 1..Len(Item(lb_result.value.lb_all, "lb_listener")) :
                Item(lb_result.value.lb_all, "lb_listener")[m] = DescribeListeners(aws, i)[n]

(***************************************************************************)
(* collect_ec2_resources(region)                                           *)
(*                                                                         *)
(* Here aws is the sequence of the region's instances, each with the id of *)
(* its image and the number of its block devices.                          *)
(***************************************************************************)
\* The model's bound on the instances of a region.
MaxInstances == 3

\* ec2.describe_images(ImageIds=[ami_id])["Images"]: two images with their
\* platform, one without "PlatformDetails"; a deregistered image gives [].
DescribeImages(ami_id) ==
    CASE ami_id = "ami-linux" ->
            << << <<"Name", "amzn2">>, <<"PlatformDetails", "Linux/UNIX">> >> >>
      [] ami_id = "ami-windows" ->
            << << <<"Name", "win2022">>, <<"PlatformDetails", "Windows">> >> >>
      [] ami_id = "ami-bare" -> << << <<"Name", "bare">> >> >>
      [] OTHER -> <<>>

ImageIds == {"ami-linux", "ami-windows", "ami-bare", "ami-gone"}

\* The instances of the model: an image id and zero to two block devices.
Ec2Instances == [ImageId : ImageIds, Volumes : 0..2]

\* ec2.describe_instances()["Reservations"]: the instances two by two, with
\* the fields the collector reads.
Ec2Instance(env, n) ==
    [InstanceId |-> "i-" \o IntStr(n), ImageId |-> env[n].ImageId,
     InstanceType |-> "t2.micro", State |-> [Name |-> "running"],
     Tags |-> <<[Key |-> "Name", Value |-> "vm-" \o IntStr(n)]>>,
     BlockDeviceMappings |->
        [v \in 1..env[n].Volumes |->
            [Ebs |-> [VolumeId |-> "vol-" \o IntStr(n) \o "-" \o IntStr(v)]]],
     VpcId |-> "vpc-1", SubnetId |-> "subnet-1"]

DescribeInstancesAll(env) ==
    [r \in 1..((Len(env) + 1) \div 2) |->
        [Instances |->
            [k \in 1..(IF 2 * r <= Len(env) THEN 2 ELSE 1) |-> Ec2Instance(env, 2 * (r - 1) + k)]]]

\* The instances in the order the two loops visit them.
InstancesVisited(env) ==
    Flatten([r \in 1..Len(DescribeInstancesAll(env)) |-> DescribeInstancesAll(env)[r].Instances])

\* A local variable that has not been assigned.
Unbound == <<"unbound", 0>>

\* ami_os after the first n instances: assigned only when the lookup of the
\* instance's image returns an image.
RECURSIVE AmiOsAfter(_, _)
AmiOsAfter(instances, n) ==
    IF n = 0 THEN Unbound
    ELSE LET images == DescribeImages(instances[n].ImageId) IN
         IF images # <<>>
         THEN PyStr(Get(images[1], "PlatformDetails", "Unknown"))
         ELSE AmiOsAfter(instances, n - 1)

\* The dict appended to instances for the n-th instance visited.
Ec2Row(instances, n) ==
    LET instance == instances[n] IN
    << <<"Name", PyStr(instance.Tags[1].Value)>>,
       <<"State", PyStr(instance.State.Name)>>,
       <<"Type", PyStr(instance.InstanceType)>>,
       <<"OS", AmiOsAfter(instances, n)>>,
       <<"InstanceId", PyStr(instance.InstanceId)>>,
       <<"PublicIP", PyStr("N/A")>>,
       <<"EBS", PyList([v \in 1..Len(instance.BlockDeviceMappings) |->
                          PyStr(instance.BlockDeviceMappings[v].Ebs.VolumeId)])>>,
       <<"VPC", PyStr(instance.VpcId)>>,
       <<"Subnet", PyStr(instance.SubnetId)>> >>

\* Reading ami_os before any assignment raises UnboundLocalError; the rows go
\* through reformat, whose exception is the collector's.
collect_ec2_resources(env) ==
    LET instances == InstancesVisited(env) IN
    IF \E n \in 1..Len(instances) : AmiOsAfter(instances, n) = Unbound
    THEN Raised("UnboundLocalError")
    ELSE LET rows == reformat([n \in 1..Len(instances) |-> Ec2Row(instances, n)], "EBS") IN
         IF rows.exc # "none" THEN rows
         ELSE Returned([rows |-> rows.value, ec2_raw |-> DescribeInstancesAll(env)])

InitEc2 ==
    /\ MainIdle
    /\ aws \in SeqUpTo(Ec2Instances, MaxInstances)
    /\ ec2_result = Unused
    /\ ebs_result = Unused
    /\ lb_result = Unused
    /\ rf_data = Unused /\ rf_key = Unused /\ rf_result = Unused
    /\ pt_data = Unused /\ pt_sortKey = Unused /\ pt_lines = Unused
    /\ ex_lbs = Unused /\ ex_rows = Unused

CallCollectEc2 ==
    /\ ec2_result = Unused
    /\ ec2_result' = collect_ec2_resources(aws)
    /\ UNCHANGED <<aws, lb_result, ebs_result, mainVars, rfVars, ptVars, exVars>>

NextEc2 == CallCollectEc2

SpecEc2 == InitEc2 /\ [][NextEc2]_vars

\* The platforms of the images that exist.
ImagePlatforms ==
    {PyStr(Get(DescribeImages(a)[1], "PlatformDetails", "Unknown")) :
        a \in {x \in ImageIds : DescribeImages(x) # <<>>}}

\* The row of the collector's result that shows instance n: its first row.
FirstRowOf(n) ==
    CHOOSE k \in 1..Len(ec2_result.value.rows) :
       /\ Item(ec2_result.value.rows[k], "InstanceId") = PyStr("i-" \o IntStr(n))
       /\ Item(ec2_result.value.rows[k], "State") # PyStr("")

\* C11: for every instance, in every order, the OS of its row comes from the
\* image lookup made for that instance: with an image, the image's platform
\* (or "Unknown" without one); with no image returned, the collector does not
\* fail on the unassigned value and the row shows no platform of some image
\* left over from an instance processed before.
C11_OsFromOwnImageLookup ==
    ec2_result # Unused =>
       /\ ec2_result.exc # "UnboundLocalError"
       /\ ec2_result.exc = "none" =>
             \A n \in 1..Len(aws) :
                LET images == DescribeImages(aws[n].ImageId)
                    os == Item(ec2_result.value.rows[FirstRowOf(n)], "OS")
                IN IF images # <<>>
                   THEN os = PyStr(Get(images[1], "PlatformDetails", "Unknown"))
                   ELSE os \notin ImagePlatforms

\* The same, for instances whose image lookup returns an image.
OsOfExistingImages ==
    (ec2_result # Unused /\ \A n \in 1..Len(aws) : DescribeImages(aws[n].ImageId) # <<>>)
       => C11_OsFromOwnImageLookup

(***************************************************************************)
(* collect_ebs_resources(region)                                           *)
(*                                                                         *)
(* Here aws is the sequence of the region's volumes, each with its size    *)
(* and the ids of the instances it is attached to.                         *)
(***************************************************************************)
\* The model's bounds on the volumes of a region and on a volume's attachments.
MaxEbsVolumes == 2
MaxAttachments == 2

EbsVolumes == [Size : {8, 100}, Attached : SeqUpTo({"i-1", "i-2"}, MaxAttachments)]

\* ec2.describe_volumes()["Volumes"]
DescribeVolumes(env) ==
    [n \in 1..Len(env) |->
        [VolumeId |-> "vol-" \o IntStr(n), Size |-> env[n].Size, Iops |-> 3000,
         VolumeType |-> "gp3",
         Attachments |-> [a \in 1..Len(env[n].Attached) |->
                            [InstanceId |-> env[n].Attached[a], State |-> "attached"]]]]

\* volume["Attachments"][0] raises IndexError for a volume that is not attached
EbsRowRaises(volume) == volume.Attachments = <<>>

\* The dict appended to volumes for a volume that is attached.
EbsRow(volume) ==
    << <<"VolumeId", PyStr(volume.VolumeId)>>,
       <<"Size(GB)", PyInt(volume.Size)>>,
       <<"IOPS", PyInt(volume.Iops)>>,
       <<"VolumeType", PyStr(volume.VolumeType)>>,
       <<"Attached_Instance", PyStr(volume.Attachments[1].InstanceId)>> >>

collect_ebs_resources(env) ==
    LET ebs_raw == DescribeVolumes(env) IN
    IF \E n \in 1..Len(ebs_raw) : EbsRowRaises(ebs_raw[n])
    THEN Raised("IndexError")
    ELSE Returned([volumes |-> [n \in 1..Len(ebs_raw) |-> EbsRow(ebs_raw[n])],
                   ebs_raw |-> ebs_raw])

InitEbs ==
    /\ MainIdle
    /\ aws \in SeqUpTo(EbsVolumes, MaxEbsVolumes)
    /\ ebs_result = Unused
    /\ ec2_result = Unused
    /\ lb_result = Unused
    /\ rf_data = Unused /\ rf_key = Unused /\ rf_result = Unused
    /\ pt_data = Unused /\ pt_sortKey = Unused /\ pt_lines = Unused
    /\ ex_lbs = Unused /\ ex_rows = Unused

CallCollectEbs ==
    /\ ebs_result = Unused
    /\ ebs_result' = collect_ebs_resources(aws)
    /\ UNCHANGED <<aws, lb_result, ec2_result, mainVars, rfVars, ptVars, exVars>>

NextEbs == CallCollectEbs

SpecEbs == InitEbs /\ [][NextEbs]_vars

\* C12: the collector returns exactly one row per volume listed, in order,
\* whatever the number of attachments of each volume (zero, one or several),
\* and does not raise because a volume is not attached.
C12_OneRowPerVolume ==
    ebs_result # Unused =>
       /\ ebs_result.exc = "none"
       /\ Len(ebs_result.value.volumes) = Len(aws)
       /\ \A n \in 1..Len(aws) :
             /\ Item(ebs_result.value.volumes[n], "VolumeId") = PyStr("vol-" \o IntStr(n))
             /\ Item(ebs_result.value.volumes[n], "Size(GB)") = PyInt(aws[n].Size)

\* The same, for regions whose volumes are all attached.
OneRowPerAttachedVolume ==
    (ebs_result # Unused /\ \A n \in 1..Len(aws) : aws[n].Attached # <<>>)
       => /\ C12_OneRowPerVolume
          /\ \A n \in 1..Len(aws) :
                Item(ebs_result.value.volumes[n], "Attached_Instance")
                   = PyStr(aws[n].Attached[1])

(***************************************************************************)
(* collect_rds_resources(region), collect_vpc_resources(region) and        *)
(* collect_s3_resources(region)                                            *)
(***************************************************************************)
\* next((tag["Value"] for tag in tags if tag["Key"] == "Name"), "N/A")
NameTag(tags) ==
    LET named == SelectSeq(tags, LAMBDA tag : tag.Key = "Name")
    IN IF named = <<>> THEN "N/A" ELSE named[1].Value

\* rds.describe_db_instances()["DBInstances"]
DescribeDbInstances(env) ==
    [n \in 1..Len(env) |->
        [DBInstanceIdentifier |-> "db-" \o IntStr(n), Engine |-> "mysql",
         DBInstanceClass |-> "db.t3.micro", AllocatedStorage |-> 20, MultiAZ |-> FALSE,
         DBSubnetGroup |-> [VpcId |-> "vpc-1"]]]

\* attached_instance_list: the instances describe_instances returns for the
\* filter on the security groups paired with the database's
AttachedInstanceList(env, n) == [k \in 1..Len(env[n].Connected) |-> PyStr(env[n].Connected[k])]

\* The dict appended to instances for database n.
RdsRow(env, n) ==
    LET db == DescribeDbInstances(env)[n] IN
    << <<"Name", PyStr(db.DBInstanceIdentifier)>>,
       <<"Engine", PyStr(db.Engine)>>,
       <<"Class", PyStr(db.DBInstanceClass)>>,
       <<"Storage", PyInt(db.AllocatedStorage)>>,
       <<"MultiAZ", PyBool(db.MultiAZ)>>,
       <<"VpcId", PyStr(db.DBSubnetGroup.VpcId)>>,
       <<"Connected EC2", PyList(AttachedInstanceList(env, n))>> >>

collect_rds_resources(env) ==
    LET rows == reformat([n \in 1..Len(env) |-> RdsRow(env, n)], "Connected EC2") IN
    IF rows.exc # "none" THEN rows
    ELSE Returned([instances |-> rows.value, rds_raw |-> DescribeDbInstances(env)])

\* ec2.describe_vpcs(VpcIds=[vpc_id])["Vpcs"]
DescribeVpcs(vpc_id) ==
    <<[VpcId |-> vpc_id, Tags |-> <<[Key |-> "Name", Value |-> "main"]>>]>>

\* ec2.describe_vpcs()["Vpcs"]: the VPC of the account's subnets and security
\* groups, if it has any
DescribeAllVpcs(subnets, sgs) ==
    IF subnets = <<>> /\ sgs = <<>> THEN <<>> ELSE DescribeVpcs("vpc-1")

\* ec2.describe_subnets()["Subnets"]
DescribeSubnets(subnets) ==
    [n \in 1..Len(subnets) |->
        [SubnetId |-> "subnet-" \o IntStr(n), VpcId |-> subnets[n].VpcId,
         CidrBlock |-> "10.0." \o IntStr(n) \o ".0/24", AvailabilityZone |-> "az-a",
         Tags |-> subnets[n].Tags]]

\* ec2.describe_security_groups()["SecurityGroups"]
DescribeSecurityGroups(sgs) ==
    [n \in 1..Len(sgs) |->
        [GroupId |-> "sg-" \o IntStr(n), GroupName |-> "group-" \o IntStr(n),
         VpcId |-> sgs[n].VpcId, Tags |-> sgs[n].Tags,
         IpPermissions |-> [k \in 1..sgs[n].Inbound |-> [IpProtocol |-> "tcp"]],
         IpPermissionsEgress |-> [k \in 1..sgs[n].Outbound |-> [IpProtocol |-> "-1"]]]]

\* vpc_combine = vpc_name+"("+vpc_id+")"
VpcCombine(vpc_id) == NameTag(DescribeVpcs(vpc_id)[1].Tags) \o "(" \o vpc_id \o ")"

summarize_security_group_rules(security_group) ==
    "Inbound Rules: " \o IntStr(Len(security_group.IpPermissions))
       \o " Outbound Rules: " \o IntStr(Len(security_group.IpPermissionsEgress))

collect_vpc_resources(subnets, sgs) ==
    Returned(
      [vpcs |->
          [n \in 1..Len(subnets) |->
              LET sb == DescribeSubnets(subnets)[n] IN
              << <<"vpc", PyStr(VpcCombine(sb.VpcId))>>,
                 <<"SubnetName", PyStr(NameTag(sb.Tags))>>,
                 <<"SubnetId", PyStr(sb.SubnetId)>>,
                 <<"CIDR", PyStr(sb.CidrBlock)>>,
                 <<"AvailabilityZone", PyStr(sb.AvailabilityZone)>> >>],
       sgs |->
          [n \in 1..Len(sgs) |->
              LET sg == DescribeSecurityGroups(sgs)[n] IN
              << <<"AttchedVPC", PyStr(VpcCombine(sg.VpcId))>>,
                 <<"Name", PyStr(NameTag(sg.Tags))>>,
                 <<"Group Name", PyStr(sg.GroupName)>>,
                 <<"GroupId", PyStr(sg.GroupId)>>,
                 <<"Rules", PyStr(summarize_security_group_rules(sg))>> >>],
       Network_resources |->
          << <<"vpc_raw", DescribeAllVpcs(subnets, sgs)>>, <<"subnet_raw", DescribeSubnets(subnets)>>,
             <<"IGgateway_raw", <<>>>>, <<"sg_raw", DescribeSecurityGroups(sgs)>> >>])

\* s3.list_buckets()["Buckets"]
ListBuckets(env) == [n \in 1..Len(env) |-> [Name |-> env[n]]]

collect_s3_resources(env) ==
    Returned(
      [all_buckets_info |->
          [n \in 1..Len(env) |->
              << <<"Name", PyStr(ListBuckets(env)[n].Name)>>,
                 <<"Type", PyStr("General Bucket")>> >>],
       s3_raw |-> ListBuckets(env)])

(***************************************************************************)
(* main()                                                                  *)
(***************************************************************************)
VERSION == "0.1.0"

\* The model's bound on the number of values given to -r.
MaxRegionArgs == 2

\* ec2.describe_regions()["Regions"], the region names in the order returned
DescribeRegions == <<"us-east-1", "eu-west-1", "ap-northeast-1">>

\* The values -r is given: indices in and out of range, "all", a region name.
RegionTokens == {"1", "3", "9", "all", "eu-west-1"}

\* r.isdigit() and int(r), on the tokens of the model
DigitTokens == {"1", "3", "9"}
isdigit(r) == r \in DigitTokens
int(r) == CHOOSE n \in 0..9 : Digits[n + 1] = r

\* list_regions(): {i + 1: region["RegionName"]}
list_regions == [i \in 1..Len(DescribeRegions) |-> DescribeRegions[i]]

\* len(sys.argv) for the parsed command line a
Argc(a) ==
    1 + (IF a.v THEN 1 ELSE 0) + (IF a.l THEN 1 ELSE 0)
      + (IF a.r = <<>> THEN 0 ELSE 1 + Len(a.r))

\* The command lines of the model; r = <<>> stands for args.r is None.
ArgvSet ==
    [v : BOOLEAN, l : BOOLEAN,
     r : UNION {[1..n -> RegionTokens] : n \in 0..MaxRegionArgs}]

\* regions.get(int(r), "Unknown")
RegionOfIndex(rs, n) == IF n \in DOMAIN rs THEN rs[n] ELSE "Unknown"

\* selected_regions of main(), from args.r and list_regions()
SelectRegions(r, rs) ==
    IF \E i \in 1..Len(r) : r[i] = "all"
    THEN [i \in 1..Len(rs) |-> rs[i]]
    ELSE [i \in 1..Len(r) |->
            IF isdigit(r[i]) THEN RegionOfIndex(rs, int(r[i])) ELSE r[i]]

\* A faulty body: RDS is collected and printed before EBS.
BodySwapped ==
    << [op |-> "collect", res |-> "ec2", what |-> "ec2"],
       [op |-> "print", res |-> "ec2", what |-> "ec2_data"],
       [op |-> "collect", res |-> "rds", what |-> "rds"],
       [op |-> "print", res |-> "rds", what |-> "rds_data"],
       [op |-> "collect", res |-> "ebs", what |-> "ebs"],
       [op |-> "print", res |-> "ebs", what |-> "ebs_data"],
       [op |-> "collect", res |-> "network", what |-> "network"],
       [op |-> "print", res |-> "network", what |-> "vpc_data"],
       [op |-> "print", res |-> "network", what |-> "sgs_data"],
       [op |-> "collect", res |-> "loadbalancer", what |-> "loadbalancer"],
       [op |-> "print", res |-> "loadbalancer", what |-> "lb_data"],
       [op |-> "print", res |-> "loadbalancer", what |-> "tg_info"],
       [op |-> "collect", res |-> "s3", what |-> "s3"],
       [op |-> "print", res |-> "s3", what |-> "s3_data"],
       [op |-> "append", res |-> "", what |-> "all_region_rawdata"] >>

\* The statements of the body of the loop over the regions, in program order.
Body ==
    << [op |-> "collect", res |-> "ec2", what |-> "ec2"],
       [op |-> "print", res |-> "ec2", what |-> "ec2_data"],
       [op |-> "collect", res |-> "ebs", what |-> "ebs"],
       [op |-> "print", res |-> "ebs", what |-> "ebs_data"],
       [op |-> "collect", res |-> "rds", what |-> "rds"],
       [op |-> "print", res |-> "rds", what |-> "rds_data"],
       [op |-> "collect", res |-> "network", what |-> "network"],
       [op |-> "print", res |-> "network", what |-> "vpc_data"],
       [op |-> "print", res |-> "network", what |-> "sgs_data"],
       [op |-> "collect", res |-> "loadbalancer", what |-> "loadbalancer"],
       [op |-> "print", res |-> "loadbalancer", what |-> "lb_data"],
       [op |-> "print", res |-> "loadbalancer", what |-> "tg_info"],
       [op |-> "collect", res |-> "s3", what |-> "s3"],
       [op |-> "print", res |-> "s3", what |-> "s3_data"],
       [op |-> "append", res |-> "", what |-> "all_region_rawdata"] >>

\* The raw response a collector returns for a region (its content is not modelled).
Raw(region, res) == <<"raw", region, res>>

Event(kind, i, res, what) == [kind |-> kind, region |-> i, res |-> res, what |-> what]

\* print("This will collect all regions information, it will take longer times.\n")
AllRegionsNotice ==
    <<"This will collect all regions information, it will take longer times.", "">>

\* The clock's reading when the JSON file is named: "%Y_%m_%d_%H_%M_%S".
Timestamp == "2025_02_18_09_00_00"

\* parser.print_help(): the lines argparse prints for this parser
PrintHelp ==
    <<"usage: AWS_Resource_list.py [-h] [-l] [-r R [R ...]] [-v]",
      "",
      "AWS Resource Collector",
      "",
      "options:",
      "  -h, --help     show this help message and exit",
      "  -l             List all AWS regions",
      "  -r R [R ...]   Specify region indices or names to list resources",
      "  -v, --version  Show version information">>

\* The AWS account of a run, the same in every region: one with no resource
\* at all, and one with one resource of each kind.
EmptyAccount ==
    [ec2 |-> <<>>, ebs |-> <<>>, rds |-> <<>>, subnets |-> <<>>, sgs |-> <<>>,
     lb |-> <<>>, s3 |-> <<>>]

SmallAccount ==
    [ec2 |-> <<[ImageId |-> "ami-linux", Volumes |-> 1]>>,
     ebs |-> <<[Size |-> 8, Attached |-> <<"i-1">>]>>,
     rds |-> <<[Connected |-> <<"i-1">>]>>,
     subnets |-> <<[VpcId |-> "vpc-1", Tags |-> <<[Key |-> "Name", Value |-> "public"]>>]>>,
     sgs |-> <<[VpcId |-> "vpc-1", Tags |-> <<>>, Inbound |-> 2, Outbound |-> 1]>>,
     lb |-> <<[redirect |-> TRUE, tgs |-> << << <<<<"Id", "i-web">>>> >> >>]>>,
     s3 |-> <<"bucket-1">>]

Accounts == {EmptyAccount, SmallAccount}

\* What the collector of a resource type returns to main(): the tables it
\* fills, by the name of main()'s variable, or the exception it raises.
Collect(env, res) ==
    CASE res = "ec2" ->
            LET r == collect_ec2_resources(env.ec2) IN
            IF r.exc # "none" THEN r ELSE Returned(<< <<"ec2_data", r.value.rows>> >>)
      [] res = "ebs" ->
            LET r == collect_ebs_resources(env.ebs) IN
            IF r.exc # "none" THEN r ELSE Returned(<< <<"ebs_data", r.value.volumes>> >>)
      [] res = "rds" ->
            LET r == collect_rds_resources(env.rds) IN
            IF r.exc # "none" THEN r ELSE Returned(<< <<"rds_data", r.value.instances>> >>)
      [] res = "network" ->
            LET r == collect_vpc_resources(env.subnets, env.sgs) IN
            Returned(<< <<"vpc_data", r.value.vpcs>>, <<"sgs_data", r.value.sgs>> >>)
      [] res = "loadbalancer" ->
            LET r == collect_lb_resources(env.lb) IN
            IF r.exc # "none" THEN r
            ELSE Returned(<< <<"lb_data", r.value.lbs>>,
                             <<"tg_info", r.value.target_group_info>> >>)
      [] res = "s3" ->
            LET r == collect_s3_resources(env.s3) IN
            Returned(<< <<"s3_data", r.value.all_buckets_info>> >>)

\* The assignment of the tables a collector returned to main()'s variables.
RECURSIVE Assign(_, _)
Assign(locals, pairs) ==
    IF pairs = <<>> THEN locals
    ELSE Assign(SetItem(locals, pairs[1][1], pairs[1][2]), Tail(pairs))

\* print("\nX:") before a table; the target groups' table has no heading
Heading(what) ==
    CASE what = "ec2_data" -> <<"", "EC2 Instances:">>
      [] what = "ebs_data" -> <<"", "EBS Volumes:">>
      [] what = "rds_data" -> <<"", "RDS Instances:">>
      [] what = "vpc_data" -> <<"", "VPCs:">>
      [] what = "sgs_data" -> <<"", "Security Groups:">>
      [] what = "lb_data" -> <<"", "Load Balancers:">>
      [] what = "tg_info" -> <<>>
      [] what = "s3_data" -> <<"", "S3 Information:">>

\* The sortKey main() gives print_table; "" stands for none.
SortKeyOf(what) ==
    CASE what = "vpc_data" -> "vpc"
      [] what = "sgs_data" -> "AttchedVPC"
      [] OTHER -> ""

\* The lines a print statement of the loop body writes.
Printed(locals, what) ==
    Heading(what)
       \o print_table(IF what = "lb_data"
                      THEN expand_listeners_with_condensed_fields(Item(locals, what))
                      ELSE Item(locals, what),
                      SortKeyOf(what))

\* TeeOutput.write, for sys.stdout: every stream gets the message
TeeWrite(lines) ==
    /\ stdout' = stdout \o lines
    /\ log_lines' = log_lines \o lines

InitMain ==
    /\ argv \in ArgvSet
    /\ pc = "start"
    /\ regions = <<>>
    /\ selected_regions = <<>>
    /\ region_i = 0
    /\ stmt = 0
    /\ region_resources = <<>>
    /\ all_region_rawdata = <<>>
    /\ tables = <<>>
    /\ trace = <<>>
    /\ stdout = <<>>
    /\ log_lines = <<>>
    /\ exit_code = -1
    /\ log_file = FALSE
    /\ json_files = <<>>

\* A faulty dispatch: -r is tested before -l.
DispatchCollectFirst ==
    /\ pc = "start"
    /\ IF argv.v
       THEN /\ stdout' = <<"AWS Resource Collector Version: " \o VERSION>>
            /\ exit_code' = 0
            /\ pc' = "exited"
            /\ UNCHANGED <<regions, selected_regions, log_file, trace>>
       ELSE IF Argc(argv) = 1
       THEN /\ stdout' = PrintHelp
            /\ exit_code' = 1
            /\ pc' = "exited"
            /\ UNCHANGED <<regions, selected_regions, log_file, trace>>
       ELSE /\ regions' = list_regions
            /\ trace' = Append(trace, Event("sdk", 0, "regions", "describe_regions"))
            /\ IF argv.r # <<>>
               THEN /\ stdout' = IF \E i \in 1..Len(argv.r) : argv.r[i] = "all"
                                 THEN AllRegionsNotice ELSE <<>>
                    /\ selected_regions' = SelectRegions(argv.r, list_regions)
                    /\ log_file' = TRUE
                    /\ pc' = "for"
                    /\ UNCHANGED exit_code
               ELSE /\ stdout' = [i \in 1..Len(list_regions) |->
                                    IntStr(i) \o ": " \o list_regions[i]]
                    /\ pc' = "returned"
                    /\ exit_code' = 0
                    /\ UNCHANGED <<selected_regions, log_file>>
    /\ UNCHANGED <<argv, region_i, stmt, region_resources, all_region_rawdata, tables,
                   log_lines, json_files>>
    /\ UNCHANGED <<rfVars, ptVars, exVars, lbVars, colVars>>

\* main() up to the loop over the regions: the mode is chosen here.
Dispatch ==
    /\ pc = "start"
    /\ IF argv.v
       THEN /\ stdout' = <<"AWS Resource Collector Version: " \o VERSION>>
            /\ exit_code' = 0
            /\ pc' = "exited"
            /\ UNCHANGED <<regions, selected_regions, log_file, trace>>
       ELSE IF Argc(argv) = 1
       THEN /\ stdout' = PrintHelp
            /\ exit_code' = 1
            /\ pc' = "exited"
            /\ UNCHANGED <<regions, selected_regions, log_file, trace>>
       ELSE /\ regions' = list_regions
            /\ trace' = Append(trace, Event("sdk", 0, "regions", "describe_regions"))
            /\ IF argv.l
               THEN /\ stdout' = [i \in 1..Len(list_regions) |->
                                    IntStr(i) \o ": " \o list_regions[i]]
                    /\ pc' = "returned"
                    /\ exit_code' = 0
                    /\ UNCHANGED <<selected_regions, log_file>>
               ELSE IF argv.r # <<>>
               THEN /\ stdout' = IF \E i \in 1..Len(argv.r) : argv.r[i] = "all"
                                 THEN AllRegionsNotice ELSE <<>>
                    /\ selected_regions' = SelectRegions(argv.r, list_regions)
                    /\ log_file' = TRUE
                    /\ pc' = "for"
                    /\ UNCHANGED exit_code
               ELSE /\ pc' = "returned"
                    /\ exit_code' = 0
                    /\ UNCHANGED <<stdout, selected_regions, log_file>>
    /\ UNCHANGED <<argv, region_i, stmt, region_resources, all_region_rawdata, tables,
                   log_lines, json_files>>
    /\ UNCHANGED <<rfVars, ptVars, exVars, lbVars, colVars>>

\* for region in selected_regions: the next region and its banner, or the end
\* of the loop
ForRegion ==
    /\ pc = "for"
    /\ IF region_i < Len(selected_regions)
       THEN /\ region_i' = region_i + 1
            /\ TeeWrite(<<"", Repeat("-", 30) \o " " \o selected_regions[region_i + 1]
                                 \o " " \o Repeat("-", 30)>>)
            /\ region_resources' =
                   [region |-> selected_regions[region_i + 1], collected_resources |-> <<>>]
            /\ stmt' = 1
            /\ pc' = "body"
       ELSE /\ pc' = "save"
            /\ UNCHANGED <<region_i, region_resources, stmt, stdout, log_lines>>
    /\ UNCHANGED <<argv, regions, selected_regions, all_region_rawdata, tables, trace,
                   exit_code, log_file, json_files>>
    /\ UNCHANGED <<rfVars, ptVars, exVars, lbVars, colVars>>

\* x_data, region_resources["collected_resources"][x] = collect_x_resources(region)
CollectReturns ==
    /\ pc = "body"
    /\ Body[stmt].op = "collect"
    /\ Collect(aws, Body[stmt].res).exc = "none"
    /\ tables' = Assign(tables, Collect(aws, Body[stmt].res).value)
    /\ region_resources' =
           [region_resources EXCEPT !.collected_resources =
               SetItem(@, Body[stmt].res, Raw(region_resources.region, Body[stmt].res))]
    /\ trace' = Append(trace, Event("collect", region_i, Body[stmt].res, Body[stmt].what))
    /\ stmt' = stmt + 1
    /\ UNCHANGED <<argv, pc, regions, selected_regions, region_i, all_region_rawdata,
                   stdout, log_lines, exit_code, log_file, json_files>>
    /\ UNCHANGED <<rfVars, ptVars, exVars, lbVars, colVars>>

\* A faulty handler: the exception is caught and the next statement runs.
CollectRaisesCaught ==
    /\ pc = "body"
    /\ Body[stmt].op = "collect"
    /\ tables' = Assign(tables, [i \in 1..Len(Collect(EmptyAccount, Body[stmt].res).value) |->
                                    <<Collect(EmptyAccount, Body[stmt].res).value[i][1], <<>>>>])
    /\ trace' = Append(trace, Event("raise", region_i, Body[stmt].res, Body[stmt].what))
    /\ stmt' = stmt + 1
    /\ UNCHANGED <<argv, pc, regions, selected_regions, region_i, region_resources,
                   all_region_rawdata, stdout, log_lines, exit_code, log_file, json_files>>
    /\ UNCHANGED <<rfVars, ptVars, exVars, lbVars, colVars>>

\* A collector raises, in its own code or in an SDK call: main() has no
\* handler, the exception ends the process.
CollectRaises ==
    /\ pc = "body"
    /\ Body[stmt].op = "collect"
    /\ trace' = Append(trace, Event("raise", region_i, Body[stmt].res, Body[stmt].what))
    /\ pc' = "crashed"
    /\ exit_code' = 1
    /\ UNCHANGED <<argv, regions, selected_regions, region_i, stmt, region_resources,
                   all_region_rawdata, tables, stdout, log_lines, log_file, json_files>>
    /\ UNCHANGED <<rfVars, ptVars, exVars, lbVars, colVars>>

\* print("\nX:"); print_table(x_data)
PrintStmt ==
    /\ pc = "body"
    /\ Body[stmt].op = "print"
    /\ TeeWrite(Printed(tables, Body[stmt].what))
    /\ trace' = Append(trace, Event("print", region_i, Body[stmt].res, Body[stmt].what))
    /\ stmt' = stmt + 1
    /\ UNCHANGED <<argv, pc, regions, selected_regions, region_i, region_resources,
                   all_region_rawdata, tables, exit_code, log_file, json_files>>
    /\ UNCHANGED <<rfVars, ptVars, exVars, lbVars, colVars>>

\* A faulty append: only the record of the last region is kept.
AppendRegionOverwrites ==
    /\ pc = "body"
    /\ Body[stmt].op = "append"
    /\ all_region_rawdata' = <<region_resources>>
    /\ trace' = Append(trace, Event("append", region_i, "", Body[stmt].what))
    /\ pc' = "for"
    /\ UNCHANGED <<argv, regions, selected_regions, region_i, stmt, region_resources,
                   tables, stdout, log_lines, exit_code, log_file, json_files>>
    /\ UNCHANGED <<rfVars, ptVars, exVars, lbVars, colVars>>

\* all_region_rawdata.append(region_resources)
AppendRegion ==
    /\ pc = "body"
    /\ Body[stmt].op = "append"
    /\ all_region_rawdata' = Append(all_region_rawdata, region_resources)
    /\ trace' = Append(trace, Event("append", region_i, "", Body[stmt].what))
    /\ pc' = "for"
    /\ UNCHANGED <<argv, regions, selected_regions, region_i, stmt, region_resources,
                   tables, stdout, log_lines, exit_code, log_file, json_files>>
    /\ UNCHANGED <<rfVars, ptVars, exVars, lbVars, colVars>>

\* save_region_resources_to_json(all_region_rawdata), then main() returns
save_region_resources_to_json ==
    /\ pc = "save"
    /\ json_files' = Append(json_files, all_region_rawdata)
    /\ TeeWrite(<<"", "All Data (JSON formatted) saved to output/aws_resources_raw_"
                         \o Timestamp \o ".json">>)
    /\ trace' = Append(trace, Event("save", region_i, "", "json"))
    /\ pc' = "returned"
    /\ exit_code' = 0
    /\ UNCHANGED <<argv, regions, selected_regions, region_i, stmt, region_resources,
                   all_region_rawdata, tables, log_file>>
    /\ UNCHANGED <<rfVars, ptVars, exVars, lbVars, colVars>>

Init ==
    /\ InitMain
    /\ aws \in Accounts
    /\ rf_data = Unused /\ rf_key = Unused /\ rf_result = Unused
    /\ pt_data = Unused /\ pt_sortKey = Unused /\ pt_lines = Unused
    /\ ex_lbs = Unused /\ ex_rows = Unused
    /\ lb_result = Unused
    /\ ec2_result = Unused /\ ebs_result = Unused

Next ==
    \/ Dispatch
    \/ ForRegion
    \/ CollectReturns
    \/ CollectRaises
    \/ PrintStmt
    \/ AppendRegion
    \/ save_region_resources_to_json

Spec == Init /\ [][Next]_vars

(***************************************************************************)
(* Properties of main()                                                    *)
(***************************************************************************)
ResourceOrder == <<"ec2", "ebs", "rds", "network", "loadbalancer", "s3">>

Rank(res) == CHOOSE k \in 1..Len(ResourceOrder) : ResourceOrder[k] = res

\* The tables printed for a resource type.
Tables(res) ==
    CASE res = "ec2" -> {"ec2_data"}
      [] res = "ebs" -> {"ebs_data"}
      [] res = "rds" -> {"rds_data"}
      [] res = "network" -> {"vpc_data", "sgs_data"}
      [] res = "loadbalancer" -> {"lb_data", "tg_info"}
      [] res = "s3" -> {"s3_data"}

IsCollectorCall(e) == e.kind \in {"collect", "raise"}
IsRegionWork(e) == e.kind \in {"collect", "raise", "print"}

\* The mode the command line asks for, by the precedence
\* show-version > no-arguments help > list-regions > collect.
Mode(a) ==
    IF a.v THEN "version"
    ELSE IF Argc(a) = 1 THEN "help"
    ELSE IF a.l THEN "list"
    ELSE "collect"

\* C4: regions are processed in the order selected and, within a region, the
\* resource types in the order EC2, EBS, RDS, network, load balancers, S3:
\* whatever ran earlier belongs to an earlier region, or to the same region and
\* an earlier or the same resource type (its collector before its tables); a
\* collector starts only once every table of the previous resource type has
\* been printed, and the first collector of a region only once the previous
\* region's record has been appended.
C4_RegionsAndTypesInSequence ==
    /\ \A a, b \in 1..Len(trace) :
          (a < b /\ IsRegionWork(trace[a]) /\ IsRegionWork(trace[b])) =>
             /\ trace[a].region <= trace[b].region
             /\ trace[a].region = trace[b].region =>
                   /\ Rank(trace[a].res) <= Rank(trace[b].res)
                   /\ (trace[a].res = trace[b].res /\ trace[a].kind = "print")
                         => trace[b].kind = "print"
    /\ \A b \in 1..Len(trace) :
          IsCollectorCall(trace[b]) =>
             /\ trace[b].region \in 1..Len(selected_regions)
             /\ \A a \in 1..(b - 1) : ~ (IsCollectorCall(trace[a])
                                          /\ trace[a].region = trace[b].region
                                          /\ trace[a].res = trace[b].res)
             /\ Rank(trace[b].res) > 1 =>
                   \A t \in Tables(ResourceOrder[Rank(trace[b].res) - 1]) :
                      \E a \in 1..(b - 1) : /\ trace[a].kind = "print"
                                            /\ trace[a].region = trace[b].region
                                            /\ trace[a].what = t
             /\ (Rank(trace[b].res) = 1 /\ trace[b].region > 1) =>
                   /\ \E a \in 1..(b - 1) : /\ trace[a].kind = "append"
                                            /\ trace[a].region = trace[b].region - 1
                   /\ \E a \in 1..(b - 1) : /\ trace[a].kind = "print"
                                            /\ trace[a].region = trace[b].region - 1
                                            /\ trace[a].what = "s3_data"
             /\ Rank(trace[b].res) = 1 =>
                   \A a \in 1..(b - 1) : trace[a].region < trace[b].region

\* Two regions have been processed to the end.
C4_Witness ==
    /\ pc = "returned"
    /\ Len(all_region_rawdata) >= 2
    /\ \E b \in 1..Len(trace) : trace[b].kind = "print" /\ trace[b].region = 2
                                /\ trace[b].what = "s3_data"

\* C5: a collector's exception ends the run: it is the last thing that ever
\* happens (no later collector call, no retry), the process ends with a
\* failure status, and no JSON dump is written, whatever regions had completed.
C5_ExceptionEndsRun ==
    \A i \in 1..Len(trace) :
       trace[i].kind = "raise" =>
          /\ i = Len(trace)
          /\ pc = "crashed"
          /\ exit_code = 1
          /\ json_files = <<>>
          /\ \A a \in 1..(i - 1) : trace[a].kind # "save"
          /\ Len(all_region_rawdata) = trace[i].region - 1

\* A collector raised after a region had completed and before the last one.
C5_Witness ==
    /\ pc = "crashed"
    /\ Len(all_region_rawdata) >= 1
    /\ region_i < Len(selected_regions)
    /\ trace[Len(trace)].kind = "raise"

SixKeys == {"ec2", "ebs", "rds", "network", "loadbalancer", "s3"}

\* C7: a collection run that completes has written exactly one JSON dump, as
\* its last step, holding one record per selected region, in selection order,
\* each with the region's name and the raw responses under exactly the six
\* keys; no run writes more than one dump.
C7_OneDumpOfAllRegions ==
    /\ Len(json_files) <= 1
    /\ Cardinality({i \in 1..Len(trace) : trace[i].kind = "save"}) = Len(json_files)
    /\ (pc = "returned" /\ Mode(argv) = "collect") =>
          /\ Len(json_files) = 1
          /\ trace[Len(trace)].kind = "save"
          /\ LET d == json_files[1] IN
                /\ Len(d) = Len(selected_regions)
                /\ (\A i \in 1..Len(argv.r) : argv.r[i] # "all") => Len(d) = Len(argv.r)
                /\ (\E i \in 1..Len(argv.r) : argv.r[i] = "all") => Len(d) = Len(DescribeRegions)
                /\ \A i \in 1..Len(d) :
                      /\ d[i].region = selected_regions[i]
                      /\ Len(d[i].collected_resources) = 6
                      /\ {d[i].collected_resources[k][1] : k \in 1..6} = SixKeys
                      /\ \A k \in 1..6 :
                            d[i].collected_resources[k][2]
                               = Raw(selected_regions[i], d[i].collected_resources[k][1])

\* A run over two selected regions has completed and written its dump.
C7_Witness ==
    /\ pc = "returned"
    /\ Len(json_files) = 1
    /\ Len(json_files[1]) = 2
    /\ Len(selected_regions) = 2

\* C8: the mode is chosen with the precedence show-version > no-arguments
\* help > list-regions > collect.  show-version exits with status 0 and
\* no-arguments with status 1, both before any SDK call; list-regions prints
\* the indexed regions and returns with no collector call, no log and no JSON
\* file, also when -r is given; collector calls and output files occur only
\* in collect mode.
C8_OneModeByPrecedence ==
    /\ pc # "start" =>
          CASE Mode(argv) = "version" ->
                  /\ pc = "exited" /\ exit_code = 0 /\ trace = <<>>
                  /\ stdout = <<"AWS Resource Collector Version: " \o VERSION>>
            [] Mode(argv) = "help" ->
                  /\ pc = "exited" /\ exit_code = 1 /\ trace = <<>>
                  /\ stdout = PrintHelp
            [] Mode(argv) = "list" ->
                  /\ pc = "returned" /\ exit_code = 0
                  /\ trace = <<Event("sdk", 0, "regions", "describe_regions")>>
                  /\ Len(stdout) = Len(DescribeRegions)
                  /\ \A i \in 1..Len(stdout) :
                        stdout[i] = IntStr(i) \o ": " \o DescribeRegions[i]
            [] Mode(argv) = "collect" ->
                  /\ pc \in {"for", "body", "save", "crashed", "returned"}
                  /\ log_file
                  /\ \A i \in 1..Len(stdout) :
                        /\ stdout[i] # "AWS Resource Collector Version: " \o VERSION
                        /\ stdout[i] \notin {PrintHelp[k] : k \in 1..Len(PrintHelp)} \ {""}
                        /\ \A k \in 1..Len(DescribeRegions) :
                              stdout[i] # IntStr(k) \o ": " \o DescribeRegions[k]
    /\ ((\E i \in 1..Len(trace) : IsRegionWork(trace[i])) \/ log_file \/ json_files # <<>>)
          => Mode(argv) = "collect"

\* list-regions has run on a command line that also gives -r.
C8_Witness ==
    /\ pc = "returned"
    /\ argv.l /\ argv.r # <<>> /\ ~ argv.v
    /\ stdout # <<>>

====
